---- MODULE Spec2Model ----
(***************************************************************************)
(* A model of the dentist-clinic API: the gin handlers of                  *)
(* internal/handlers, the JWT middleware, the token and password helpers   *)
(* and the notification service, over a MongoDB database modelled as two   *)
(* collections kept in insertion order.                                    *)
(*                                                                         *)
(* A handler that makes at most one database call is one action, from the  *)
(* middleware to the response.  CreateAppointment and CancelAppointment    *)
(* make several calls with no transaction around them: they are one action *)
(* per call, a launch of the notification and the response, so that other  *)
(* requests and the goroutines run between them.                           *)
(* The database is assumed to answer (no network or server failure), so    *)
(* the handlers' "500 Failed to ..." branches that only a failing store    *)
(* reaches are not taken, except the ones a handler reaches by itself.     *)
(* The CORS gate of main runs before every route: a request it refuses is  *)
(* the action CorsAbort, and every other request action is a request it    *)
(* lets through.                                                           *)
(***************************************************************************)
EXTENDS Integers, Sequences, FiniteSets, TLC

VARIABLES
    jwtSecret,      \* utils.jwtSecret, read from JWT_SECRET when the process starts
    emailIndex,     \* whether the deployment's users collection has a unique index on email
    users,          \* the "users" collection, in insertion order
    appointments,   \* the "appointments" collection, in insertion order
    tokens,         \* the session tokens Login has issued (held by the callers)
    now,            \* the server's clock, in ticks of TickHours since the process started
    sms,            \* the sendSmsWithTextbelt goroutines launched and not yet finished
    smsLog,         \* what the last goroutine to finish wrote to the log
    running,        \* the CreateAppointment and CancelAppointment handlers between two calls
    last            \* the last request served and its response

vars == <<jwtSecret, emailIndex, users, appointments, tokens, now, sms, smsLog, running, last>>

(***************************************************************************)
(* Bounds of the model.                                                    *)
(***************************************************************************)
MaxUsers == 2
MaxAppointments == 2
MaxTokens == 2
MaxSms == 1
MaxNow == 2
MaxRunning == 1

(***************************************************************************)
(* Program constants.                                                      *)
(***************************************************************************)
BcryptCost == 14
MinPasswordLen == 8
TokenTTLHours == 24
TickHours == TokenTTLHours \div 2
EndOfDaySeconds == 23 * 3600 + 59 * 60

StatusOK == 200
StatusCreated == 201
StatusBadRequest == 400
StatusUnauthorized == 401
StatusForbidden == 403
StatusNotFound == 404
StatusConflict == 409
StatusInternalServerError == 500

(***************************************************************************)
(* primitive.ObjectID.  An ObjectID is modelled by its canonical lower-    *)
(* case hex string; NewObjectID never returns the same value twice, which  *)
(* the model renders by drawing the n-th document of a collection from a   *)
(* fixed list of distinct identifiers (users and appointments apart).      *)
(***************************************************************************)
NilObjectID == "000000000000000000000000"

UserObjectIDs ==
    <<"66a1f00000000000000000a1", "66a1f00000000000000000a2",
      "66a1f00000000000000000a3", "66a1f00000000000000000a4">>

AppointmentObjectIDs ==
    <<"66b2e00000000000000000b1", "66b2e00000000000000000b2",
      "66b2e00000000000000000b3", "66b2e00000000000000000b4">>

UnusedObjectID == "66c3d00000000000000000c9"

\* hex.DecodeString accepts both cases: the upper-case spelling of the first
\* appointment identifier decodes to the same ObjectID.
UpperFirstAppointmentHex == "66B2E00000000000000000B1"

WellFormedHex ==
    {UserObjectIDs[i] : i \in DOMAIN UserObjectIDs}
        \cup {AppointmentObjectIDs[i] : i \in DOMAIN AppointmentObjectIDs}
        \cup {UnusedObjectID, NilObjectID}

ObjectIDFromHex(s) ==
    IF s \in WellFormedHex THEN [ok |-> TRUE, id |-> s]
    ELSE IF s = UpperFirstAppointmentHex
         THEN [ok |-> TRUE, id |-> AppointmentObjectIDs[1]]
    ELSE [ok |-> FALSE, id |-> NilObjectID]

Hex(id) == id

(***************************************************************************)
(* time.Parse.  A timestamp text is first split into its fields (the table *)
(* below holds the texts the model uses); the instant is then computed     *)
(* from the fields as seconds since the Unix epoch.                        *)
(***************************************************************************)
NoFields == [ok |-> FALSE, y |-> 0, mo |-> 0, d |-> 0, h |-> 0, mi |-> 0, s |-> 0, off |-> 0]

Fields(y, mo, d, h, mi, s, off) ==
    [ok |-> TRUE, y |-> y, mo |-> mo, d |-> d, h |-> h, mi |-> mi, s |-> s, off |-> off]

RFC3339Fields(text) ==
    CASE text = "2024-07-01T08:00:00Z"      -> Fields(2024, 7, 1, 8, 0, 0, 0)
      [] text = "2024-07-01T10:00:00+02:00" -> Fields(2024, 7, 1, 10, 0, 0, 7200)
      [] text = "2024-07-01T09:00:00Z"      -> Fields(2024, 7, 1, 9, 0, 0, 0)
      [] text = "2024-07-31T23:00:00Z"      -> Fields(2024, 7, 31, 23, 0, 0, 0)
      [] text = "2024-07-31T23:59:30Z"      -> Fields(2024, 7, 31, 23, 59, 30, 0)
      [] text = "2024-08-01T00:30:00Z"      -> Fields(2024, 8, 1, 0, 30, 0, 0)
      [] text = "2024-06-30T23:30:00Z"      -> Fields(2024, 6, 30, 23, 30, 0, 0)
      [] text = "2024-13-01T08:00:00Z"      -> Fields(2024, 13, 1, 8, 0, 0, 0)
      [] OTHER -> NoFields

DateFields(text) ==
    CASE text = "2024-07-01" -> Fields(2024, 7, 1, 0, 0, 0, 0)
      [] text = "2024-07-02" -> Fields(2024, 7, 2, 0, 0, 0, 0)
      [] text = "2024-07-31" -> Fields(2024, 7, 31, 0, 0, 0, 0)
      [] text = "2024-02-30" -> Fields(2024, 2, 30, 0, 0, 0, 0)
      [] OTHER -> NoFields

IsLeap(y) == (y % 4 = 0 /\ y % 100 # 0) \/ y % 400 = 0

DaysIn(y, mo) ==
    IF mo = 2 THEN (IF IsLeap(y) THEN 29 ELSE 28)
    ELSE IF mo \in {4, 6, 9, 11} THEN 30 ELSE 31

InRange(f) ==
    /\ f.ok
    /\ f.mo \in 1..12
    /\ f.d \in 1..DaysIn(f.y, f.mo)
    /\ f.h \in 0..23 /\ f.mi \in 0..59 /\ f.s \in 0..59

\* Days from 1970-01-01 to the civil date y-mo-d (proleptic Gregorian).
DaysFromCivil(y, mo, d) ==
    LET yy  == IF mo <= 2 THEN y - 1 ELSE y
        era == yy \div 400
        yoe == yy - era * 400
        mp  == IF mo > 2 THEN mo - 3 ELSE mo + 9
        doy == (153 * mp + 2) \div 5 + d - 1
        doe == yoe * 365 + yoe \div 4 - yoe \div 100 + doy
    IN  era * 146097 + doe - 719468

UnixSeconds(f) ==
    DaysFromCivil(f.y, f.mo, f.d) * 86400 + f.h * 3600 + f.mi * 60 + f.s - f.off

\* time.Parse(time.RFC3339, text)
ParseRFC3339(text) ==
    LET f == RFC3339Fields(text)
    IN  IF InRange(f) THEN [ok |-> TRUE, t |-> UnixSeconds(f)]
        ELSE [ok |-> FALSE, t |-> 0]

\* time.Parse("2006-01-02", text)
ParseDate(text) ==
    LET f == DateFields(text)
    IN  IF InRange(f) THEN [ok |-> TRUE, t |-> UnixSeconds(f)]
        ELSE [ok |-> FALSE, t |-> 0]

(***************************************************************************)
(* utils.HashPassword / utils.CheckPasswordHash.  bcrypt is modelled as a  *)
(* one-way tag around the password: a hash verifies exactly the password   *)
(* it was made from (the salt is drawn inside bcrypt and plays no part in  *)
(* the comparison's outcome).                                              *)
(***************************************************************************)
HashPassword(password) == [alg |-> "bcrypt", cost |-> BcryptCost, of |-> password]

CheckPasswordHash(password, hash) == hash.alg = "bcrypt" /\ hash.of = password

(***************************************************************************)
(* utils.GenerateJWT / utils.ValidateJWT.  A token is the claims it        *)
(* carries together with the key its HS256 signature was made with; a      *)
(* text that is no JWS at all has form "garbage".                          *)
(***************************************************************************)
NoClaims == [UserID |-> "", Role |-> ""]

GenerateJWT(userID, role, secret, clock) ==
    IF secret = ""
    THEN [ok |-> FALSE, err |-> "JWT_SECRET is not configured",
          token |-> [form |-> "none", UserID |-> "", Role |-> "", exp |-> 0, key |-> ""]]
    ELSE [ok |-> TRUE, err |-> "",
          token |-> [form |-> "jws", UserID |-> userID, Role |-> role,
                     exp |-> clock * TickHours + TokenTTLHours, key |-> secret]]

\* The validation as it would be if the expiration were not looked at.
ValidateJWTIgnoringExp(tokenStr, secret, clock) ==
    IF secret = "" \/ tokenStr.form # "jws" \/ tokenStr.key # secret
    THEN [ok |-> FALSE, err |-> "token is unverifiable", claims |-> NoClaims]
    ELSE [ok |-> TRUE, err |-> "",
          claims |-> [UserID |-> tokenStr.UserID, Role |-> tokenStr.Role]]

ValidateJWT(tokenStr, secret, clock) ==
    IF secret = ""
    THEN [ok |-> FALSE, err |-> "JWT_SECRET is not configured", claims |-> NoClaims]
    ELSE IF tokenStr.form # "jws"
    THEN [ok |-> FALSE, err |-> "token is malformed", claims |-> NoClaims]
    ELSE IF tokenStr.key # secret
    THEN [ok |-> FALSE, err |-> "signature is invalid", claims |-> NoClaims]
    ELSE IF ~(clock * TickHours < tokenStr.exp)
    THEN [ok |-> FALSE, err |-> "token is expired", claims |-> NoClaims]
    ELSE [ok |-> TRUE, err |-> "",
          claims |-> [UserID |-> tokenStr.UserID, Role |-> tokenStr.Role]]

(***************************************************************************)
(* middleware.AuthMiddleware.  A request's Authorization header is either  *)
(* absent (value "") or carries a token, with or without "Bearer ".        *)
(***************************************************************************)
NoToken == [form |-> "none", UserID |-> "", Role |-> "", exp |-> 0, key |-> ""]
GarbageToken == [form |-> "garbage", UserID |-> "", Role |-> "", exp |-> 0, key |-> ""]

NoHeader == [present |-> FALSE, bearer |-> FALSE, token |-> NoToken]
Bearer(t) == [present |-> TRUE, bearer |-> TRUE, token |-> t]
Bare(t) == [present |-> TRUE, bearer |-> FALSE, token |-> t]

\* strings.TrimPrefix(authHeader, "Bearer ")
TrimBearer(authHeader) == authHeader.token

NoBody == [kind |-> "none"]
ErrorBody(msg) == [kind |-> "error", error |-> msg]
MessageBody(msg) == [kind |-> "message", message |-> msg]

\* The response record of one request: what the caller sees (status, body) and
\* what the handler did to get there (database calls made, goroutines launched).
Response(status, body, dbOps, launched) ==
    [status |-> status, body |-> body, dbOps |-> dbOps, launched |-> launched]

AuthMiddleware(authHeader, secret, clock) ==
    IF ~authHeader.present
    THEN [next |-> FALSE, claims |-> NoClaims, header |-> authHeader,
          resp |-> Response(StatusUnauthorized, ErrorBody("Authorization header required"), 0, 0)]
    ELSE LET v == ValidateJWT(TrimBearer(authHeader), secret, clock)
         IN  IF ~v.ok
             THEN [next |-> FALSE, claims |-> NoClaims, header |-> authHeader,
                   resp |-> Response(StatusUnauthorized, ErrorBody("Invalid token"), 0, 0)]
             ELSE [next |-> TRUE, claims |-> v.claims, header |-> authHeader,
                   resp |-> Response(StatusOK, NoBody, 0, 0)]

(***************************************************************************)
(* cors.New(cors.Config{...}), which main installs with r.Use before any   *)
(* route: it runs first on every request, before AuthMiddleware and the    *)
(* handler.  A request's Origin header is absent or names a scheme and a   *)
(* host; its Host header names the host the request was sent to.  The      *)
(* routes of the model are not OPTIONS requests, so the preflight branch   *)
(* of the gate is not taken.                                               *)
(***************************************************************************)
NoOrigin == [present |-> FALSE, scheme |-> "", host |-> ""]
Origin(scheme, host) == [present |-> TRUE, scheme |-> scheme, host |-> host]

\* AllowOrigins: []string{"https://dentaheal.netlify.app"}
AllowOrigins == {Origin("https", "dentaheal.netlify.app")}

\* A request without Origin, or whose Origin is "http://" + Host or
\* "https://" + Host, is not a cross-origin request and goes on.  Any other
\* Origin must be one of AllowOrigins, or the gate aborts with 403 and no body.
\* On an allowed Origin the gate only adds response headers, which the model
\* does not keep.
Cors(origin, host) ==
    IF ~origin.present
    THEN [next |-> TRUE, resp |-> Response(StatusOK, NoBody, 0, 0)]
    ELSE IF origin.scheme \in {"http", "https"} /\ origin.host = host
    THEN [next |-> TRUE, resp |-> Response(StatusOK, NoBody, 0, 0)]
    ELSE IF origin \notin AllowOrigins
    THEN [next |-> FALSE, resp |-> Response(StatusForbidden, NoBody, 0, 0)]
    ELSE [next |-> TRUE, resp |-> Response(StatusOK, NoBody, 0, 0)]

(***************************************************************************)
(* The users collection.                                                   *)
(***************************************************************************)
\* collection.FindOne(filter): the first document, in natural order, that matches.
FirstIndex(seq, Match(_)) ==
    IF \E i \in 1..Len(seq) : Match(seq[i])
    THEN CHOOSE i \in 1..Len(seq) :
            Match(seq[i]) /\ \A j \in 1..(i - 1) : ~Match(seq[j])
    ELSE 0

FindUserByEmail(us, email) == LET M(u) == u.email = email IN FirstIndex(us, M)
FindUserByID(us, id) == LET M(u) == u.id = id IN FirstIndex(us, M)

\* json.Marshal of models.User: the password field is tagged json:"-".
UserJSON(u) ==
    [kind |-> "user", id |-> Hex(u.id), fullName |-> u.fullName, email |-> u.email,
     role |-> u.role, phone |-> u.phone]

\* The `email` tag of the validator, on the addresses the model uses.
IsEmail(s) == s \in {"ann@mail.com", "bob@mail.com", "dee@clinic.org"}

\* ShouldBindJSON on RegisterUserRequest: required, email, min=8, required.
RegisterBindingOK(req) ==
    /\ req.json
    /\ req.fullName # ""
    /\ req.email # "" /\ IsEmail(req.email)
    /\ req.password # "" /\ Len(req.password) >= MinPasswordLen
    /\ req.phone # ""

\* InsertOne on users: a duplicate-key error is what a unique index on email
\* raises; nothing in the program creates that index, so it exists only in a
\* deployment whose database was given one.
InsertUserDuplicateKey(us, index, user) ==
    index /\ \E i \in 1..Len(us) : us[i].email = user.email

(***************************************************************************)
(* Handler.RegisterUser, as a function of the collection and the request:  *)
(* the response and the collection afterwards.                             *)
(***************************************************************************)
NewUser(us, req) ==
    [id       |-> UserObjectIDs[Len(us) + 1],
     fullName |-> req.fullName,
     email    |-> req.email,
     password |-> HashPassword(req.password),
     role     |-> IF req.role = "" THEN "client" ELSE req.role,
     phone    |-> req.phone]

RegisterUserResult(us, index, req) ==
    IF ~RegisterBindingOK(req)
    THEN [resp |-> Response(StatusBadRequest, ErrorBody("Field validation failed"), 0, 0),
          users |-> us]
    ELSE LET user == NewUser(us, req)
         IN  IF InsertUserDuplicateKey(us, index, user)
             THEN [resp |-> Response(StatusConflict,
                                     ErrorBody("An account with this email already exists"), 1, 0),
                   users |-> us]
             ELSE [resp |-> Response(StatusCreated, UserJSON(user), 1, 0),
                   users |-> Append(us, user)]

(***************************************************************************)
(* Handler.Login.                                                          *)
(***************************************************************************)
\* Login as it would be if the missing account were reported as such.
LoginResultTellsAbsent(us, secret, clock, req) ==
    IF ~req.json
    THEN [resp |-> Response(StatusBadRequest, ErrorBody("Invalid request"), 0, 0),
          issued |-> {}]
    ELSE LET i == FindUserByEmail(us, req.email)
         IN  IF i = 0
             THEN [resp |-> Response(StatusNotFound, ErrorBody("User not found"), 1, 0),
                   issued |-> {}]
             ELSE IF ~CheckPasswordHash(req.password, us[i].password)
             THEN [resp |-> Response(StatusUnauthorized, ErrorBody("Invalid credentials"), 1, 0),
                   issued |-> {}]
             ELSE LET g == GenerateJWT(Hex(us[i].id), us[i].role, secret, clock)
                  IN  IF ~g.ok
                      THEN [resp |-> Response(StatusInternalServerError,
                                              ErrorBody("Could not generate token"), 1, 0),
                            issued |-> {}]
                      ELSE [resp |-> Response(StatusOK,
                                              [kind |-> "login", token |-> g.token,
                                               user |-> UserJSON(us[i])], 1, 0),
                            issued |-> {g.token}]

LoginResult(us, secret, clock, req) ==
    IF ~req.json
    THEN [resp |-> Response(StatusBadRequest, ErrorBody("Invalid request"), 0, 0),
          issued |-> {}]
    ELSE LET i == FindUserByEmail(us, req.email)
         IN  IF i = 0
             THEN [resp |-> Response(StatusUnauthorized, ErrorBody("Invalid credentials"), 1, 0),
                   issued |-> {}]
             ELSE IF ~CheckPasswordHash(req.password, us[i].password)
             THEN [resp |-> Response(StatusUnauthorized, ErrorBody("Invalid credentials"), 1, 0),
                   issued |-> {}]
             ELSE LET g == GenerateJWT(Hex(us[i].id), us[i].role, secret, clock)
                  IN  IF ~g.ok
                      THEN [resp |-> Response(StatusInternalServerError,
                                              ErrorBody("Could not generate token"), 1, 0),
                            issued |-> {}]
                      ELSE [resp |-> Response(StatusOK,
                                              [kind |-> "login", token |-> g.token,
                                               user |-> UserJSON(us[i])], 1, 0),
                            issued |-> {g.token}]

(***************************************************************************)
(* Handler.GetCurrentUser / Handler.UpdateCurrentUser.                     *)
(***************************************************************************)
GetCurrentUserResult(us, claims) ==
    LET h == ObjectIDFromHex(claims.UserID)
    IN  IF ~h.ok
        THEN Response(StatusInternalServerError, ErrorBody("Invalid user ID format"), 0, 0)
        ELSE LET i == FindUserByID(us, h.id)
             IN  IF i = 0
                 THEN Response(StatusNotFound, ErrorBody("User not found"), 1, 0)
                 ELSE Response(StatusOK, UserJSON(us[i]), 1, 0)

UpdateCurrentUserResult(us, claims, req) ==
    LET userID == ObjectIDFromHex(claims.UserID).id
    IN  IF ~req.json
        THEN [resp |-> Response(StatusBadRequest, ErrorBody("Invalid request body"), 0, 0),
              users |-> us]
        ELSE IF req.fullName = ""
        THEN [resp |-> Response(StatusBadRequest, ErrorBody("No update fields provided"), 0, 0),
              users |-> us]
        ELSE LET i == FindUserByID(us, userID)
             IN  IF i = 0
                 THEN [resp |-> Response(StatusNotFound, ErrorBody("User not found"), 1, 0),
                       users |-> us]
                 ELSE [resp |-> Response(StatusOK, MessageBody("Profile updated successfully"), 1, 0),
                       users |-> [us EXCEPT ![i].fullName = req.fullName]]

(***************************************************************************)
(* services.NotificationService.  The SMS text is fmt.Sprintf's output,    *)
(* kept as the tuple of its pieces; the start time is formatted with the   *)
(* layout "Jan 2 at 3:04 PM" from the wall clock of the time value.        *)
(***************************************************************************)
MonthAbbr ==
    <<"Jan", "Feb", "Mar", "Apr", "May", "Jun", "Jul", "Aug", "Sep", "Oct", "Nov", "Dec">>

\* The civil date and time of day, in UTC, of an instant.
CivilFromUnix(t) ==
    LET days == t \div 86400
        secs == t % 86400
        z    == days + 719468
        era  == z \div 146097
        doe  == z - era * 146097
        yoe  == (doe - doe \div 1460 + doe \div 36524 - doe \div 146096) \div 365
        doy  == doe - (365 * yoe + yoe \div 4 - yoe \div 100)
        mp   == (5 * doy + 2) \div 153
        d    == doy - (153 * mp + 2) \div 5 + 1
        mo   == IF mp < 10 THEN mp + 3 ELSE mp - 9
        y    == yoe + era * 400 + (IF mo <= 2 THEN 1 ELSE 0)
    IN  Fields(y, mo, d, secs \div 3600, (secs % 3600) \div 60, secs % 60, 0)

\* t.Format("Jan 2 at 3:04 PM") of a time whose wall clock is f.
FormatKitchen(f) ==
    <<MonthAbbr[f.mo], f.d, "at",
      IF f.h % 12 = 0 THEN 12 ELSE f.h % 12, f.mi,
      IF f.h < 12 THEN "AM" ELSE "PM">>

\* How the goroutine's POST to textbelt.com can end: http.Post returns an error,
\* the reply says success false (or cannot be decoded), or it says success true.
TextbeltOutcomes == {"post failed", "refused", "sent"}

\* The line sendSmsWithTextbelt logs before it returns.
LogLine(outcome, phone) ==
    CASE outcome = "post failed" -> <<"Failed to send Textbelt request for number", phone>>
      [] outcome = "refused"     -> <<"Failed to send SMS via Textbelt to", phone>>
      [] outcome = "sent"        -> <<"Successfully sent SMS via Textbelt to", phone>>

NothingLogged == <<>>

\* Textbelt accepts every message.
Delivered == {"sent"}

\* SendAppointmentConfirmationSMS: the goroutines it launches (none without a phone).
SendAppointmentConfirmationSMS(patient, service, wallClock) ==
    IF patient.phone = ""
    THEN <<>>
    ELSE <<[phone   |-> patient.phone,
            message |-> <<"Appointment Confirmed:", service, "with", patient.fullName,
                          "on", FormatKitchen(wallClock)>>]>>

(***************************************************************************)
(* The appointments collection: Find with a filter and a sort on startTime.*)
(***************************************************************************)
Unset == [set |-> FALSE, v |-> ""]
Set(v) == [set |-> TRUE, v |-> v]
NoTime == [set |-> FALSE, t |-> 0]
AtTime(t) == [set |-> TRUE, t |-> t]

EmptyFilter == [patientId |-> Unset, gte |-> NoTime, lte |-> NoTime, status |-> Unset]

\* The part of the filter both list handlers build from startDate, endDate, status.
QueryFilter(base, q) ==
    LET sd == ParseDate(q.startDate)
        ed == ParseDate(q.endDate)
    IN  [base EXCEPT
            !.gte = IF q.startDate # "" /\ sd.ok THEN AtTime(sd.t) ELSE NoTime,
            !.lte = IF q.endDate # "" /\ ed.ok THEN AtTime(ed.t + EndOfDaySeconds) ELSE NoTime,
            !.status = IF q.status # "" THEN Set(q.status) ELSE Unset]

Matches(a, f) ==
    /\ f.patientId.set => a.patientId = f.patientId.v
    /\ f.gte.set => a.startTime >= f.gte.t
    /\ f.lte.set => a.startTime <= f.lte.t
    /\ f.status.set => a.status = f.status.v

\* Sorted by startTime, ascending (dir = 1) or descending (dir = -1); documents
\* with equal start times keep their natural order.
SortByStartTime(seq, dir) ==
    LET n == Len(seq)
        Before(i, j) ==
            \/ dir * seq[i].startTime < dir * seq[j].startTime
            \/ seq[i].startTime = seq[j].startTime /\ i < j
        Rank(i) == Cardinality({j \in 1..n : Before(j, i)}) + 1
    IN  [p \in 1..n |-> seq[CHOOSE i \in 1..n : Rank(i) = p]]

Find(apps, f, dir) ==
    LET M(a) == Matches(a, f) IN SortByStartTime(SelectSeq(apps, M), dir)

FindAppointmentByID(apps, id) == LET M(a) == a.id = id IN FirstIndex(apps, M)

\* json.Marshal of models.Appointment.
AppointmentJSON(a) ==
    [kind |-> "appointment", id |-> Hex(a.id), patientId |-> Hex(a.patientId),
     patientName |-> a.patientName, startTime |-> a.startTime, endTime |-> a.endTime,
     service |-> a.service, status |-> a.status]

\* c.JSON of a []models.Appointment: a nil slice is written as null.
ListBody(items, isNil) ==
    [kind |-> "list", isNull |-> isNil,
     items |-> [k \in 1..Len(items) |-> AppointmentJSON(items[k])]]

\* cursor.All into a nil slice leaves it nil when the cursor holds no document.
CursorAll(docs) == [isNil |-> docs = <<>>, items |-> docs]

(***************************************************************************)
(* Handler.GetAppointments and Handler.GetAppointment.                     *)
(***************************************************************************)
GetAppointmentsResult(apps, claims, q) ==
    LET filter == QueryFilter(EmptyFilter, q)
        got    == CursorAll(Find(apps, filter, 1))
    IN  Response(StatusOK, ListBody(got.items, got.isNil), 1, 0)

GetAppointmentResult(apps, claims, q) ==
    LET own == ObjectIDFromHex(claims.UserID)
    IN  IF claims.Role = "client" /\ ~own.ok
        THEN Response(StatusInternalServerError, ErrorBody("Invalid user ID in token"), 0, 0)
        ELSE LET f0 == IF claims.Role = "client"
                       THEN [EmptyFilter EXCEPT !.patientId = Set(own.id)]
                       ELSE EmptyFilter
                 f1 == QueryFilter(f0, q)
                 p  == ObjectIDFromHex(q.patientId)
                 f2 == IF claims.Role # "client" /\ q.patientId # "" /\ p.ok
                       THEN [f1 EXCEPT !.patientId = Set(p.id)]
                       ELSE f1
                 got == CursorAll(Find(apps, f2, -1))
             IN  Response(StatusOK, ListBody(got.items, FALSE), 1, 0)

(***************************************************************************)
(* Handler.CreateAppointment.                                              *)
(***************************************************************************)
\* The document as it would be built if the patient identifier were left unset.
NewAppointmentNoPatient(apps, patientID, patient, startTime, endTime, service) ==
    [id          |-> AppointmentObjectIDs[Len(apps) + 1],
     patientId   |-> NilObjectID,
     patientName |-> patient.fullName,
     startTime   |-> startTime,
     endTime     |-> endTime,
     service     |-> service,
     status      |-> "Scheduled"]

NewAppointment(apps, patientID, patient, startTime, endTime, service) ==
    [id          |-> AppointmentObjectIDs[Len(apps) + 1],
     patientId   |-> patientID,
     patientName |-> patient.fullName,
     startTime   |-> startTime,
     endTime     |-> endTime,
     service     |-> service,
     status      |-> "Scheduled"]

\* CreateAppointment to the return of FindOne on the users collection: the
\* response of a request that ends there, or the user document read.
CreateAppointmentChecks(us, claims, req) ==
    LET st == ParseRFC3339(req.startTime)
        et == ParseRFC3339(req.endTime)
        patientID == ObjectIDFromHex(claims.UserID).id
        i  == FindUserByID(us, patientID)
    IN  IF ~req.json
        THEN [ok |-> FALSE, patient |-> <<>>,
              resp |-> Response(StatusBadRequest, ErrorBody("Invalid request body"), 0, 0)]
        ELSE IF ~st.ok \/ ~et.ok
        THEN [ok |-> FALSE, patient |-> <<>>,
              resp |-> Response(StatusBadRequest,
                                ErrorBody("Invalid time format, use RFC3339"), 0, 0)]
        ELSE IF claims.Role # "client"
        THEN [ok |-> FALSE, patient |-> <<>>,
              resp |-> Response(StatusForbidden,
                                ErrorBody("Only clients can book appointments."), 0, 0)]
        ELSE IF i = 0
        THEN [ok |-> FALSE, patient |-> <<>>,
              resp |-> Response(StatusInternalServerError,
                                ErrorBody("Could not find user details"), 1, 0)]
        ELSE [ok |-> TRUE, patient |-> <<us[i]>>, resp |-> Response(0, NoBody, 1, 0)]

\* The appointment CreateAppointment builds from the user document it read and
\* hands to InsertOne.
CreateAppointmentDocument(apps, claims, req, patient) ==
    NewAppointment(apps, ObjectIDFromHex(claims.UserID).id, patient,
                   ParseRFC3339(req.startTime).t, ParseRFC3339(req.endTime).t, req.service)

(***************************************************************************)
(* Handler.UpdateAppointment.  Each optional field of the body is a        *)
(* pointer: unset, or set to a text.                                       *)
(***************************************************************************)
\* The role check as it would be if any role but the empty one passed it.
IsStaffAnyRole(role) == role # ""

IsStaff(role) == role = "dentist" \/ role = "staff"

\* updateFields as it would be if the error of time.Parse were not looked at:
\* a text that is no timestamp sets the zero time.
UpdateFieldsKeepingUnparsed(req) ==
    [startTime |-> IF req.startTime.set THEN AtTime(ParseRFC3339(req.startTime.v).t) ELSE NoTime,
     endTime   |-> IF req.endTime.set THEN AtTime(ParseRFC3339(req.endTime.v).t) ELSE NoTime,
     service   |-> IF req.service.set THEN Set(req.service.v) ELSE Unset,
     status    |-> IF req.status.set THEN Set(req.status.v) ELSE Unset]

\* updateFields: the document given to $set.
UpdateFields(req) ==
    LET st == ParseRFC3339(req.startTime.v)
        et == ParseRFC3339(req.endTime.v)
    IN  [startTime |-> IF req.startTime.set /\ st.ok THEN AtTime(st.t) ELSE NoTime,
         endTime   |-> IF req.endTime.set /\ et.ok THEN AtTime(et.t) ELSE NoTime,
         service   |-> IF req.service.set THEN Set(req.service.v) ELSE Unset,
         status    |-> IF req.status.set THEN Set(req.status.v) ELSE Unset]

UpdateFieldCount(uf) ==
    Cardinality({k \in {"startTime", "endTime", "service", "status"} : uf[k].set})

\* The update as it would be if the document were replaced by the update
\* fields instead of having them set: what the body leaves out is emptied.
ApplySetReplacing(a, uf) ==
    [a EXCEPT
        !.startTime = IF uf.startTime.set THEN uf.startTime.t ELSE 0,
        !.endTime   = IF uf.endTime.set THEN uf.endTime.t ELSE 0,
        !.service   = IF uf.service.set THEN uf.service.v ELSE "",
        !.status    = IF uf.status.set THEN uf.status.v ELSE ""]

\* UpdateOne(filter by _id, $set: uf) applied to one document.
ApplySet(a, uf) ==
    [a EXCEPT
        !.startTime = IF uf.startTime.set THEN uf.startTime.t ELSE @,
        !.endTime   = IF uf.endTime.set THEN uf.endTime.t ELSE @,
        !.service   = IF uf.service.set THEN uf.service.v ELSE @,
        !.status    = IF uf.status.set THEN uf.status.v ELSE @]

\* UpdateOne as it would be with the upsert option: an identifier that matches
\* nothing inserts a document holding the identifier and the fields set.
UpdateOneByIDUpserting(apps, id, uf) ==
    LET i == FindAppointmentByID(apps, id)
        blank == [id |-> id, patientId |-> "", patientName |-> "", startTime |-> 0,
                  endTime |-> 0, service |-> "", status |-> ""]
    IN  IF i = 0 THEN Append(apps, ApplySet(blank, uf))
        ELSE [apps EXCEPT ![i] = ApplySet(apps[i], uf)]

UpdateOneByID(apps, id, uf) ==
    LET i == FindAppointmentByID(apps, id)
    IN  IF i = 0 THEN apps ELSE [apps EXCEPT ![i] = ApplySet(apps[i], uf)]

UpdateAppointmentResult(apps, claims, idParam, req) ==
    LET h  == ObjectIDFromHex(idParam)
        uf == UpdateFields(req)
    IN  IF ~IsStaff(claims.Role)
        THEN [resp |-> Response(StatusForbidden, ErrorBody("Permission denied."), 0, 0),
              appointments |-> apps]
        ELSE IF ~h.ok
        THEN [resp |-> Response(StatusBadRequest, ErrorBody("Invalid appointment ID"), 0, 0),
              appointments |-> apps]
        ELSE IF ~req.json
        THEN [resp |-> Response(StatusBadRequest, ErrorBody("Invalid request body"), 0, 0),
              appointments |-> apps]
        ELSE IF UpdateFieldCount(uf) = 0
        THEN [resp |-> Response(StatusBadRequest, ErrorBody("No fields to update"), 0, 0),
              appointments |-> apps]
        ELSE [resp |-> Response(StatusOK, MessageBody("Appointment updated successfully"), 1, 0),
              appointments |-> UpdateOneByID(apps, h.id, uf)]

(***************************************************************************)
(* Handler.CancelAppointment.                                              *)
(***************************************************************************)
CancelFields == [startTime |-> NoTime, endTime |-> NoTime, service |-> Unset,
                 status |-> Set("Cancelled")]

\* CancelAppointment to the return of FindOne on the appointments collection:
\* the response of a request that ends there, or the appointment read.
CancelAppointmentChecks(apps, claims, idParam) ==
    LET h == ObjectIDFromHex(idParam)
        i == FindAppointmentByID(apps, h.id)
    IN  IF ~IsStaff(claims.Role)
        THEN [ok |-> FALSE, apt |-> <<>>,
              resp |-> Response(StatusForbidden, ErrorBody("Permission denied."), 0, 0)]
        ELSE IF ~h.ok
        THEN [ok |-> FALSE, apt |-> <<>>,
              resp |-> Response(StatusBadRequest, ErrorBody("Invalid appointment ID"), 0, 0)]
        ELSE IF i = 0
        THEN [ok |-> FALSE, apt |-> <<>>,
              resp |-> Response(StatusNotFound, ErrorBody("Appointment not found"), 1, 0)]
        ELSE [ok |-> TRUE, apt |-> <<apps[i]>>, resp |-> Response(0, NoBody, 1, 0)]

(***************************************************************************)
(* Handler.HandleChat.  The handler reads and writes nothing of the server *)
(* but its response; the answer of the Gemini API is the environment's.    *)
(***************************************************************************)
GeminiOutcomes ==
    {"post failed", "read failed", "error status", "unparsable", "no candidate", "answered"}

\* What the Gemini API says when it answers.
GeminiReply == "Teeth Cleaning: $120"

ChatBody(text) == [kind |-> "chat", success |-> TRUE, message |-> text]

HandleChatResult(req, outcome) ==
    IF ~req.json
    THEN Response(StatusBadRequest,
                  ErrorBody("Invalid request format, expecting {\"message\": \"...\"}"), 0, 0)
    ELSE IF req.message = ""
    THEN Response(StatusBadRequest, ErrorBody("Message cannot be empty"), 0, 0)
    ELSE CASE outcome = "post failed" ->
                Response(StatusInternalServerError,
                         ErrorBody("Failed to send request to AI service"), 0, 0)
           [] outcome = "read failed" ->
                Response(StatusInternalServerError, ErrorBody("Failed to read AI response"), 0, 0)
           [] outcome = "error status" ->
                Response(StatusInternalServerError, ErrorBody("AI service returned an error"), 0, 0)
           [] outcome = "unparsable" ->
                Response(StatusInternalServerError, ErrorBody("Failed to parse AI response"), 0, 0)
           [] outcome = "no candidate" ->
                Response(StatusInternalServerError,
                         ErrorBody("AI returned an empty or invalid response"), 0, 0)
           [] OTHER -> Response(StatusOK, ChatBody(GeminiReply), 0, 0)

(***************************************************************************)
(* The state machine.  Every request action records the request it served, *)
(* its Authorization header, the identity the middleware put in the        *)
(* context and the response.                                               *)
(***************************************************************************)
Served(op, req, mw, resp) ==
    [op |-> op, req |-> req, header |-> mw.header, authenticated |-> mw.next,
     claims |-> mw.claims,
     status |-> resp.status, body |-> resp.body, dbOps |-> resp.dbOps,
     launched |-> resp.launched]

\* The routes of /auth run without the middleware.
Public == [next |-> FALSE, claims |-> NoClaims, header |-> NoHeader]

NoRequest == [json |-> FALSE]

\* What is kept of a request the CORS gate aborted: its route and the two
\* headers the gate read.
CorsRequest(route, origin, host) ==
    [json |-> FALSE, route |-> route, origin |-> origin, host |-> host]

Init ==
    /\ jwtSecret \in {"", "s3cr3t-k3y"}
    /\ emailIndex \in BOOLEAN
    /\ users = <<>>
    /\ appointments = <<>>
    /\ tokens = {}
    /\ now = 0
    /\ sms = <<>>
    /\ smsLog = NothingLogged
    /\ running = <<>>
    /\ last = [op |-> "none", req |-> NoRequest, header |-> NoHeader,
               authenticated |-> FALSE, claims |-> NoClaims,
               status |-> 0, body |-> NoBody, dbOps |-> 0, launched |-> 0]

\* A request to any route that the CORS gate aborts: the chain stops there, so
\* neither AuthMiddleware nor the handler runs, whatever the Authorization
\* header and the body are.  The request actions below are the requests the gate
\* lets through: sent without Origin, from the server's own origin or from the
\* allowed one.
CorsAbort(route, origin, host, hdr) ==
    LET gate == Cors(origin, host)
    IN  /\ ~gate.next
        /\ last' = Served("cors", CorsRequest(route, origin, host),
                          [next |-> FALSE, claims |-> NoClaims, header |-> hdr], gate.resp)
        /\ UNCHANGED <<jwtSecret, emailIndex, users, appointments, tokens, now, sms, smsLog, running>>

\* POST /auth/register
RegisterUser(req) ==
    LET r == RegisterUserResult(users, emailIndex, req)
    IN  /\ Len(r.users) <= MaxUsers
        /\ users' = r.users
        /\ last' = Served("RegisterUser", req, Public, r.resp)
        /\ UNCHANGED <<jwtSecret, emailIndex, appointments, tokens, now, sms, smsLog, running>>

\* POST /auth/login
Login(req) ==
    LET r == LoginResult(users, jwtSecret, now, req)
    IN  /\ Cardinality(tokens \cup r.issued) <= MaxTokens
        /\ tokens' = tokens \cup r.issued
        /\ last' = Served("Login", req, Public, r.resp)
        /\ UNCHANGED <<jwtSecret, emailIndex, users, appointments, now, sms, smsLog, running>>

\* GET /api/user/:id
GetCurrentUser(hdr) ==
    LET mw == AuthMiddleware(hdr, jwtSecret, now)
        resp == IF mw.next THEN GetCurrentUserResult(users, mw.claims) ELSE mw.resp
    IN  /\ last' = Served("GetCurrentUser", NoRequest, mw, resp)
        /\ UNCHANGED <<jwtSecret, emailIndex, users, appointments, tokens, now, sms, smsLog, running>>

\* PUT /api/user/:id
UpdateCurrentUser(hdr, req) ==
    LET mw == AuthMiddleware(hdr, jwtSecret, now)
        r  == UpdateCurrentUserResult(users, mw.claims, req)
    IN  /\ users' = IF mw.next THEN r.users ELSE users
        /\ last' = Served("UpdateCurrentUser", req, mw, IF mw.next THEN r.resp ELSE mw.resp)
        /\ UNCHANGED <<jwtSecret, emailIndex, appointments, tokens, now, sms, smsLog, running>>

\* A handler that has not returned: the request and the identity it runs under,
\* the call it makes next, and what it has read, built and launched so far.
Started(op, mw, req, pc, patient, apt) ==
    [op |-> op, header |-> mw.header, claims |-> mw.claims, req |-> req, pc |-> pc,
     patient |-> patient, apt |-> apt, launched |-> 0]

\* The running handlers that have still to insert an appointment, and those
\* that have still to launch a goroutine.
ToInsert(rs) == Cardinality({k \in 1..Len(rs) : rs[k].pc = "InsertOne"})
ToLaunch(rs) == Cardinality({k \in 1..Len(rs) : rs[k].pc # "JSON"})

Without(seq, k) == SubSeq(seq, 1, k - 1) \o SubSeq(seq, k + 1, Len(seq))

\* What a handler that ran to its end writes with c.JSON.
FinalResponse(h) ==
    IF h.op = "CreateAppointment"
    THEN Response(StatusCreated, AppointmentJSON(h.apt[1]), 2, h.launched)
    ELSE Response(StatusOK, MessageBody("Appointment cancelled successfully"), 3, h.launched)

\* POST /api/appointments: the middleware and the handler to the return of
\* FindOne on the users collection.  A request refused on the way is answered
\* in this step; another goes on with the user document it read.
CreateAppointment(hdr, req) ==
    LET mw == AuthMiddleware(hdr, jwtSecret, now)
        r  == CreateAppointmentChecks(users, mw.claims, req)
    IN  IF ~mw.next \/ ~r.ok
        THEN /\ last' = Served("CreateAppointment", req, mw, IF mw.next THEN r.resp ELSE mw.resp)
             /\ UNCHANGED <<jwtSecret, emailIndex, users, appointments, tokens, now, sms, smsLog, running>>
        ELSE /\ Len(running) < MaxRunning
             /\ Len(appointments) + ToInsert(running) < MaxAppointments
             /\ Len(sms) + ToLaunch(running) < MaxSms
             /\ running' = Append(running, Started("CreateAppointment", mw, req, "InsertOne",
                                                   r.patient, <<>>))
             /\ UNCHANGED <<jwtSecret, emailIndex, users, appointments, tokens, now, sms, smsLog, last>>

\* CreateAppointment: InsertOne of the appointment built from the user read before.
CreateInsertOne(k) ==
    /\ running[k].op = "CreateAppointment"
    /\ running[k].pc = "InsertOne"
    /\ LET h   == running[k]
           apt == CreateAppointmentDocument(appointments, h.claims, h.req, h.patient[1])
       IN  /\ appointments' = Append(appointments, apt)
           /\ running' = [running EXCEPT ![k].pc = "go", ![k].apt = <<apt>>]
    /\ UNCHANGED <<jwtSecret, emailIndex, users, tokens, now, sms, smsLog, last>>

\* GET /api/appointments
GetAppointments(hdr, q) ==
    LET mw == AuthMiddleware(hdr, jwtSecret, now)
        resp == IF mw.next THEN GetAppointmentsResult(appointments, mw.claims, q) ELSE mw.resp
    IN  /\ last' = Served("GetAppointments", q, mw, resp)
        /\ UNCHANGED <<jwtSecret, emailIndex, users, appointments, tokens, now, sms, smsLog, running>>

\* GET /api/appointment/user/:id
GetAppointment(hdr, q) ==
    LET mw == AuthMiddleware(hdr, jwtSecret, now)
        resp == IF mw.next THEN GetAppointmentResult(appointments, mw.claims, q) ELSE mw.resp
    IN  /\ last' = Served("GetAppointment", q, mw, resp)
        /\ UNCHANGED <<jwtSecret, emailIndex, users, appointments, tokens, now, sms, smsLog, running>>

\* PUT /api/appointments/:id
UpdateAppointment(hdr, idParam, req) ==
    LET mw == AuthMiddleware(hdr, jwtSecret, now)
        r  == UpdateAppointmentResult(appointments, mw.claims, idParam, req)
    IN  /\ appointments' = IF mw.next THEN r.appointments ELSE appointments
        /\ last' = Served("UpdateAppointment", [id |-> idParam, body |-> req], mw,
                          IF mw.next THEN r.resp ELSE mw.resp)
        /\ UNCHANGED <<jwtSecret, emailIndex, users, tokens, now, sms, smsLog, running>>

\* PATCH /api/appointments/:id/cancel: the middleware and the handler to the
\* return of FindOne on the appointments collection.
CancelAppointment(hdr, idParam) ==
    LET mw == AuthMiddleware(hdr, jwtSecret, now)
        r  == CancelAppointmentChecks(appointments, mw.claims, idParam)
    IN  IF ~mw.next \/ ~r.ok
        THEN /\ last' = Served("CancelAppointment", [id |-> idParam], mw,
                               IF mw.next THEN r.resp ELSE mw.resp)
             /\ UNCHANGED <<jwtSecret, emailIndex, users, appointments, tokens, now, sms, smsLog, running>>
        ELSE /\ Len(running) < MaxRunning
             /\ Len(sms) + ToLaunch(running) < MaxSms
             /\ running' = Append(running, Started("CancelAppointment", mw, [id |-> idParam],
                                                   "UpdateOne", <<>>, r.apt))
             /\ UNCHANGED <<jwtSecret, emailIndex, users, appointments, tokens, now, sms, smsLog, last>>

\* CancelAppointment: UpdateOne sets the status of the appointment with the
\* identifier of the request.
CancelUpdateOne(k) ==
    /\ running[k].op = "CancelAppointment"
    /\ running[k].pc = "UpdateOne"
    /\ appointments' = UpdateOneByID(appointments, ObjectIDFromHex(running[k].req.id).id,
                                     CancelFields)
    /\ running' = [running EXCEPT ![k].pc = "FindOne"]
    /\ UNCHANGED <<jwtSecret, emailIndex, users, tokens, now, sms, smsLog, last>>

\* CancelAppointment: FindOne of the patient of the appointment read before;
\* without that user no notification is sent.
CancelFindOne(k) ==
    /\ running[k].op = "CancelAppointment"
    /\ running[k].pc = "FindOne"
    /\ LET i == FindUserByID(users, running[k].apt[1].patientId)
       IN  running' = IF i = 0
                      THEN [running EXCEPT ![k].pc = "JSON"]
                      ELSE [running EXCEPT ![k].pc = "go", ![k].patient = <<users[i]>>]
    /\ UNCHANGED <<jwtSecret, emailIndex, users, appointments, tokens, now, sms, smsLog, last>>

\* SendAppointmentConfirmationSMS, called by either handler with the user and
\* the appointment it holds: the goroutine is launched and the handler goes on.
Notify(k) ==
    /\ running[k].pc = "go"
    /\ LET h    == running[k]
           wall == IF h.op = "CreateAppointment"
                   THEN RFC3339Fields(h.req.startTime)
                   ELSE CivilFromUnix(h.apt[1].startTime)
           go   == SendAppointmentConfirmationSMS(h.patient[1], h.apt[1].service, wall)
       IN  /\ sms' = sms \o go
           /\ running' = [running EXCEPT ![k].pc = "JSON", ![k].launched = Len(go)]
    /\ UNCHANGED <<jwtSecret, emailIndex, users, appointments, tokens, now, smsLog, last>>

\* c.JSON at the end of either handler: the response is written and the handler returns.
WriteJSON(k) ==
    /\ running[k].pc = "JSON"
    /\ LET h == running[k]
       IN  last' = Served(h.op, h.req, [header |-> h.header, next |-> TRUE, claims |-> h.claims],
                          FinalResponse(h))
    /\ running' = Without(running, k)
    /\ UNCHANGED <<jwtSecret, emailIndex, users, appointments, tokens, now, sms, smsLog>>

\* POST /api/chat: `outcome` is how the handler's call to the Gemini API ended.
HandleChat(hdr, req, outcome) ==
    LET mw == AuthMiddleware(hdr, jwtSecret, now)
    IN  /\ last' = Served("HandleChat", req, mw,
                          IF mw.next THEN HandleChatResult(req, outcome) ELSE mw.resp)
        /\ UNCHANGED <<jwtSecret, emailIndex, users, appointments, tokens, now, sms, smsLog, running>>

\* One sendSmsWithTextbelt goroutine runs to its end (whatever Textbelt answers,
\* it only writes a log line).
\* The goroutine as it would be if a failed send were started over.
SendSmsRetrying(outcome) ==
    /\ sms # <<>>
    /\ \E i \in 1..Len(sms) :
          /\ sms' = IF outcome = "sent"
                    THEN SubSeq(sms, 1, i - 1) \o SubSeq(sms, i + 1, Len(sms))
                    ELSE sms
          /\ smsLog' = LogLine(outcome, sms[i].phone)
    /\ UNCHANGED <<jwtSecret, emailIndex, users, appointments, tokens, now, running, last>>

\* One sendSmsWithTextbelt goroutine runs to its end; `outcome` is how its POST
\* to textbelt.com ended.  Whatever the outcome, it logs one line and returns.
SendSmsWithTextbelt(outcome) ==
    /\ sms # <<>>
    /\ \E i \in 1..Len(sms) :
          /\ sms' = SubSeq(sms, 1, i - 1) \o SubSeq(sms, i + 1, Len(sms))
          /\ smsLog' = LogLine(outcome, sms[i].phone)
    /\ UNCHANGED <<jwtSecret, emailIndex, users, appointments, tokens, now, running, last>>

\* Time passes.
Tick ==
    /\ now < MaxNow
    /\ now' = now + 1
    /\ UNCHANGED <<jwtSecret, emailIndex, users, appointments, tokens, sms, last, smsLog, running>>

(***************************************************************************)
(* The requests the specifications draw from.                              *)
(***************************************************************************)
\* The Host of a request sent to the server on its default port, and the
\* origins the requests come from.
ApiHost == "localhost:8080"
ClinicOrigin == Origin("https", "dentaheal.netlify.app")
PlainClinicOrigin == Origin("http", "dentaheal.netlify.app")
OwnOrigin == Origin("http", ApiHost)
OtherOrigin == Origin("https", "other.example")

Origins == {NoOrigin, ClinicOrigin, PlainClinicOrigin, OwnOrigin, OtherOrigin}

Routes ==
    {"POST /auth/register", "POST /auth/login",
     "GET /api/appointments", "POST /api/appointments",
     "GET /api/appointment/user/:id", "PUT /api/appointments/:id",
     "PATCH /api/appointments/:id/cancel", "POST /api/chat",
     "GET /api/user/:id", "PUT /api/user/:id"}

RegisterRequest(fullName, email, password, role) ==
    [json |-> TRUE, fullName |-> fullName, email |-> email, password |-> password,
     role |-> role, phone |-> "+15550100"]

AnnRegisters == RegisterRequest("Ann", "ann@mail.com", "longenough1", "")
BobRegisters == RegisterRequest("Bob", "bob@mail.com", "hunter2hunter2", "client")
DeeRegisters == RegisterRequest("Dee", "dee@clinic.org", "drillbabydrill", "dentist")
SamRegisters == RegisterRequest("Sam", "dee@clinic.org", "frontdesk123", "staff")
\* a second registration under Ann's address, with another password and role
EveRegisters == RegisterRequest("Eve", "ann@mail.com", "evepassword9", "admin")
ShortPassword == RegisterRequest("Ann", "ann@mail.com", "short", "")

LoginRequest(email, password) == [json |-> TRUE, email |-> email, password |-> password]

LoginOf(reg) == LoginRequest(reg.email, reg.password)

\* A token signed with a key that is not the server's.
ForgedToken ==
    [form |-> "jws", UserID |-> UserObjectIDs[1], Role |-> "dentist",
     exp |-> 10 * TokenTTLHours, key |-> "attacker-key"]

CreateRequest(startTime, endTime, service) ==
    [json |-> TRUE, startTime |-> startTime, endTime |-> endTime, service |-> service]

BookCleaning == CreateRequest("2024-07-01T10:00:00+02:00", "2024-07-01T09:00:00Z", "Cleaning")
BookCheckup == CreateRequest("2024-07-31T23:59:30Z", "2024-08-01T00:30:00Z", "Checkup")
BookTomorrow == CreateRequest("tomorrow", "2024-07-01T09:00:00Z", "Cleaning")

RenameToAnna == [json |-> TRUE, fullName |-> "Anna"]

ChatRequest(message) == [json |-> TRUE, message |-> message]

AskPrice == ChatRequest("How much is a cleaning?")
AskNothing == ChatRequest("")

Query(startDate, endDate, status, patientId) ==
    [startDate |-> startDate, endDate |-> endDate, status |-> status, patientId |-> patientId]

NoFilter == Query("", "", "", "")
JulyScheduled == Query("2024-07-01", "2024-07-31", "Scheduled", "")
OfFirstUser == Query("", "", "", UserObjectIDs[1])

UpdateRequest(startTime, endTime, service, status) ==
    [json |-> TRUE, startTime |-> startTime, endTime |-> endTime, service |-> service,
     status |-> status]

UpdateNothing == UpdateRequest(Unset, Unset, Unset, Unset)
UpdateCompleted == UpdateRequest(Unset, Unset, Unset, Set("Completed"))
UpdateReopen == UpdateRequest(Unset, Unset, Unset, Set("Scheduled"))
UpdateTimes ==
    UpdateRequest(Set("2024-07-31T23:00:00Z"), Set("2024-08-01T00:30:00Z"), Unset, Unset)
UpdateServiceBadStart == UpdateRequest(Set("next week"), Unset, Set("Whitening"), Unset)
UpdateBadStartOnly == UpdateRequest(Set("next week"), Unset, Unset, Unset)

\* The Authorization headers a caller can send: none, or a token Login issued.
HeadersOf(issued) == {NoHeader} \cup {Bearer(t) : t \in issued}

\* The headers of the callers who logged in.
BearersOf(issued) == {Bearer(t) : t \in issued}

(***************************************************************************)
(* SpecAuth: registration, login and the passing of time.                  *)
(***************************************************************************)
AuthRegisterRequests == {AnnRegisters, DeeRegisters, EveRegisters, ShortPassword}

AuthLoginRequests ==
    {LoginOf(AnnRegisters), LoginOf(DeeRegisters), LoginOf(EveRegisters),
     LoginRequest("ann@mail.com", "wrongpass1"),
     LoginRequest("nobody@mail.com", "longenough1"),
     NoRequest}

NextAuth ==
    \/ \E req \in AuthRegisterRequests : RegisterUser(req)
    \/ \E req \in AuthLoginRequests : Login(req)
    \/ Tick
    \/ CorsAbort("POST /auth/login", OtherOrigin, ApiHost, NoHeader)

SpecAuth == Init /\ [][NextAuth]_vars

(***************************************************************************)
(* Properties of registration and login.                                   *)
(***************************************************************************)
EmailRegistered(email) == \E i \in 1..Len(users) : users[i].email = email

\* The request names a stored account's email with a password that is not the
\* password of any account under that email.
WrongPassword(req) ==
    /\ req.json
    /\ EmailRegistered(req.email)
    /\ \A i \in 1..Len(users) :
          users[i].email = req.email => ~CheckPasswordHash(req.password, users[i].password)

UnknownEmail(req) == req.json /\ ~EmailRegistered(req.email)

\* What the caller of Login sees: the status and the body.
LoginOutcome(req) ==
    LET r == LoginResult(users, jwtSecret, now, req)
    IN  [status |-> r.resp.status, body |-> r.resp.body, issued |-> r.issued]

\* C8: a Login with a registered email and a wrong password and a Login with an
\* email that has no account get the same response (status 401, the same message,
\* no token), in every reachable state; and the Login just served, when it is of
\* either kind, got exactly that response.
C8_LoginFailuresIndistinguishable ==
    /\ \A r1, r2 \in AuthLoginRequests :
          WrongPassword(r1) /\ UnknownEmail(r2) =>
              /\ LoginOutcome(r1) = LoginOutcome(r2)
              /\ LoginOutcome(r1).status = StatusUnauthorized
              /\ LoginOutcome(r1).issued = {}
    /\ (last.op = "Login" /\ (WrongPassword(last.req) \/ UnknownEmail(last.req))) =>
          /\ last.status = StatusUnauthorized
          /\ last.body = ErrorBody("Invalid credentials")

\* A Login with a wrong password has just been refused, and a request with an
\* unknown email is there to compare it with.
C8_Witness ==
    /\ last.op = "Login"
    /\ WrongPassword(last.req)
    /\ last.status = StatusUnauthorized
    /\ \E r2 \in AuthLoginRequests : UnknownEmail(r2)

\* Account i was registered with the email and the password of the request.
RegisteredWith(i, req) ==
    /\ users[i].email = req.email
    /\ CheckPasswordHash(req.password, users[i].password)

\* C9: with a signing secret configured, a Login with the email and password of
\* a successful registration succeeds, and the token it returns is accepted by
\* ValidateJWT at every time before its expiration, with the identifier and the
\* role stored at that registration.
C9_RegisterThenLogin ==
    \A i \in 1..Len(users) :
        (jwtSecret # "" /\ last.op = "Login" /\ last.req.json /\ RegisteredWith(i, last.req)) =>
            /\ last.status = StatusOK
            /\ \A c \in 0..MaxNow :
                  c * TickHours < last.body.token.exp =>
                      LET v == ValidateJWT(last.body.token, jwtSecret, c)
                      IN  /\ v.ok
                          /\ v.claims = [UserID |-> Hex(users[i].id), Role |-> users[i].role]

\* C10: no two stored users share an email, and a registration that succeeded
\* did not use the email of an account stored before it.
C10_EmailsUnique ==
    /\ \A i, j \in 1..Len(users) : i # j => users[i].email # users[j].email
    /\ (last.op = "RegisterUser" /\ last.status = StatusCreated) =>
          Cardinality({i \in 1..Len(users) : users[i].email = last.req.email}) = 1

(***************************************************************************)
(* SpecBooking: accounts of every role, profile changes and bookings.      *)
(***************************************************************************)
BookingRegisterRequests == {AnnRegisters, DeeRegisters, SamRegisters, EveRegisters}

BookingCreateRequests == {BookCleaning, BookTomorrow, NoRequest}

NextBooking ==
    \/ \E req \in BookingRegisterRequests : RegisterUser(req)
    \/ \E req \in BookingRegisterRequests : Login(LoginOf(req))
    \/ \E hdr \in HeadersOf(tokens) : UpdateCurrentUser(hdr, RenameToAnna)
    \/ \E hdr \in HeadersOf(tokens), req \in BookingCreateRequests : CreateAppointment(hdr, req)
    \/ \E k \in 1..Len(running) : CreateInsertOne(k)
    \/ \E k \in 1..Len(running) : Notify(k)
    \/ \E k \in 1..Len(running) : WriteJSON(k)
    \/ \E outcome \in Delivered : SendSmsWithTextbelt(outcome)
    \/ CorsAbort("POST /api/appointments", OtherOrigin, ApiHost, NoHeader)

SpecBooking == Init /\ [][NextBooking]_vars

(***************************************************************************)
(* Properties of booking.                                                  *)
(***************************************************************************)
\* A request step: a handler has just served a request (the goroutines' steps
\* and the clock's leave `last` alone).
Serving(op) == last' # last /\ last'.op = op

\* C2: a Create by an authenticated caller whose role is not client is answered
\* 403 whatever its body, and leaves the appointments as they were.
C2_NonClientCreateDenied ==
    [][(Serving("CreateAppointment") /\ last'.authenticated /\ last'.claims.Role # "client") =>
          (last'.status = StatusForbidden /\ appointments' = appointments)]_vars

\* A CreateAppointment handler has just called InsertOne.
Inserting(k) ==
    /\ Len(running') = Len(running)
    /\ running[k].op = "CreateAppointment"
    /\ running[k].pc = "InsertOne"
    /\ running'[k].pc = "go"

(***************************************************************************)
(* SpecLookup: a client who books and changes her name, also between the   *)
(* calls of a booking, and a dentist who tries to book.                    *)
(***************************************************************************)
NextLookup ==
    \/ \E req \in {AnnRegisters, DeeRegisters} : RegisterUser(req)
    \/ \E req \in {AnnRegisters, DeeRegisters} : Login(LoginOf(req))
    \/ \E hdr \in BearersOf(tokens) : UpdateCurrentUser(hdr, RenameToAnna)
    \/ \E hdr \in BearersOf(tokens) : CreateAppointment(hdr, BookCleaning)
    \/ \E k \in 1..Len(running) : CreateInsertOne(k)
    \/ \E k \in 1..Len(running) : Notify(k)
    \/ \E k \in 1..Len(running) : WriteJSON(k)
    \/ \E outcome \in Delivered : SendSmsWithTextbelt(outcome)
    \/ CorsAbort("POST /api/appointments", OtherOrigin, ApiHost, NoHeader)

SpecLookup == Init /\ [][NextLookup]_vars

\* A CreateAppointment request has just arrived and its handler holds the user
\* document FindOne returned.
LookedUp ==
    /\ Len(running') = Len(running) + 1
    /\ running'[Len(running')].op = "CreateAppointment"

\* C3 as stated: the appointment a Create stores carries as patient name the
\* full name the users collection holds for the caller at the moment the
\* appointment is stored.
C3_NameAsStoredWhenInserted ==
    [][\A k \in 1..Len(running) :
          Inserting(k) =>
              LET a == appointments'[Len(appointments')]
                  i == FindUserByID(users, a.patientId)
              IN  i # 0 /\ a.patientName = users[i].fullName]_vars

\* C3: the handler of a Create holds the user document the users collection
\* had for the caller of the session when the request looked it up; the
\* appointment it stores has that caller as patient, status "Scheduled", and as
\* patient name the full name of the document looked up; nothing but such a
\* step adds an appointment; the 201 carries the appointment stored; and every
\* stored appointment belongs to a stored user whose role is client.
C3_CreatedForCaller ==
    [][/\ LookedUp =>
             LET h == running'[Len(running')]
                 i == FindUserByID(users, ObjectIDFromHex(h.claims.UserID).id)
             IN  /\ i # 0
                 /\ Hex(users[i].id) = h.claims.UserID
                 /\ h.patient = <<users[i]>>
       /\ \A k \in 1..Len(running) :
             Inserting(k) =>
                 LET a == appointments'[Len(appointments')]
                 IN  /\ appointments' = Append(appointments, a)
                     /\ running'[k].apt = <<a>>
                     /\ Hex(a.patientId) = running[k].claims.UserID
                     /\ a.status = "Scheduled"
                     /\ a.patientId = running[k].patient[1].id
                     /\ a.patientName = running[k].patient[1].fullName
       /\ Len(appointments') > Len(appointments) => \E k \in 1..Len(running) : Inserting(k)
       /\ (Serving("CreateAppointment") /\ last'.status = StatusCreated) =>
             \E k \in 1..Len(running) :
                 /\ running[k].pc = "JSON"
                 /\ last'.claims = running[k].claims
                 /\ last'.body = AppointmentJSON(running[k].apt[1])
       /\ \A k \in 1..Len(appointments') :
             \E i \in 1..Len(users') :
                 users'[i].id = appointments'[k].patientId /\ users'[i].role = "client"]_vars

\* A booking has just been answered 201 with the name "Ann" its lookup found,
\* and stored so, while the caller has meanwhile changed her name to "Anna".
C3_Witness ==
    /\ last.op = "CreateAppointment"
    /\ last.status = StatusCreated
    /\ last.body.patientName = "Ann"
    /\ last.body.patientId = last.claims.UserID
    /\ \E i \in 1..Len(users) :
          /\ Hex(users[i].id) = last.claims.UserID
          /\ users[i].fullName = "Anna"
    /\ \E k \in 1..Len(appointments) :
          /\ Hex(appointments[k].id) = last.body.id
          /\ appointments[k].patientName = "Ann"

(***************************************************************************)
(* SpecList: bookings of two clients and the two list routes.              *)
(***************************************************************************)
ListRegisterRequests == {AnnRegisters, BobRegisters, DeeRegisters}

ListQueries == {NoFilter, JulyScheduled, OfFirstUser}

NextList ==
    \/ \E req \in ListRegisterRequests : RegisterUser(req)
    \/ \E req \in ListRegisterRequests : Login(LoginOf(req))
    \/ \E hdr \in HeadersOf(tokens), req \in {BookCleaning, BookCheckup} :
          CreateAppointment(hdr, req)
    \/ \E hdr \in HeadersOf(tokens), q \in ListQueries : GetAppointments(hdr, q)
    \/ \E hdr \in HeadersOf(tokens), q \in ListQueries : GetAppointment(hdr, q)
    \/ \E k \in 1..Len(running) : CreateInsertOne(k)
    \/ \E k \in 1..Len(running) : Notify(k)
    \/ \E k \in 1..Len(running) : WriteJSON(k)
    \/ \E outcome \in Delivered : SendSmsWithTextbelt(outcome)
    \/ CorsAbort("GET /api/appointments", OtherOrigin, ApiHost, NoHeader)

SpecList == Init /\ [][NextList]_vars

\* C1: the appointments a list route has just returned to a caller whose role is
\* client all carry that caller's identifier as patient identifier.
C1_ClientSeesOnlyOwn ==
    (last.op \in {"GetAppointments", "GetAppointment"}
        /\ last.status = StatusOK /\ last.claims.Role = "client") =>
        \A k \in 1..Len(last.body.items) : last.body.items[k].patientId = last.claims.UserID

(***************************************************************************)
(* SpecStaff: a client's bookings and what the dentist does to them.       *)
(***************************************************************************)
StaffRegisterRequests == {AnnRegisters, DeeRegisters}

StaffUpdateRequests == {UpdateReopen}

StaffUpdateIdParams == {AppointmentObjectIDs[1]}

StaffCancelIdParams == {UpperFirstAppointmentHex, "b1"}

NextStaff ==
    \/ \E req \in StaffRegisterRequests : RegisterUser(req)
    \/ \E req \in StaffRegisterRequests : Login(LoginOf(req))
    \/ \E hdr \in BearersOf(tokens) : CreateAppointment(hdr, BookCleaning)
    \/ \E hdr \in BearersOf(tokens), id \in StaffUpdateIdParams, req \in StaffUpdateRequests :
          UpdateAppointment(hdr, id, req)
    \/ \E hdr \in BearersOf(tokens), id \in StaffCancelIdParams : CancelAppointment(hdr, id)
    \/ \E hdr \in BearersOf(tokens) : GetAppointment(hdr, NoFilter)
    \/ \E k \in 1..Len(running) : CreateInsertOne(k)
    \/ \E k \in 1..Len(running) : CancelUpdateOne(k)
    \/ \E k \in 1..Len(running) : CancelFindOne(k)
    \/ \E k \in 1..Len(running) : Notify(k)
    \/ \E k \in 1..Len(running) : WriteJSON(k)
    \/ \E outcome \in Delivered : SendSmsWithTextbelt(outcome)
    \/ CorsAbort("PATCH /api/appointments/:id/cancel", OtherOrigin, ApiHost, NoHeader)

SpecStaff == Init /\ [][NextStaff]_vars

(***************************************************************************)
(* Properties of Update and Cancel.                                        *)
(***************************************************************************)
\* C4: an Update or a Cancel by an authenticated caller whose role is neither
\* dentist nor staff is answered 403 before any database call: no call was made,
\* no goroutine launched, and the collections, the goroutines and the running
\* handlers are as before.
C4_DeniedBeforeStore ==
    [][((Serving("UpdateAppointment") \/ Serving("CancelAppointment"))
            /\ last'.authenticated /\ last'.claims.Role \notin {"dentist", "staff"}) =>
          /\ last'.status = StatusForbidden
          /\ last'.dbOps = 0
          /\ last'.launched = 0
          /\ appointments' = appointments
          /\ users' = users
          /\ sms' = sms
          /\ running' = running]_vars

\* A client has just been refused the cancellation of a stored, scheduled appointment.
C4_Witness ==
    /\ last.op = "CancelAppointment"
    /\ last.claims.Role = "client"
    /\ last.status = StatusForbidden
    /\ \E k \in 1..Len(appointments) :
          /\ appointments[k].id = ObjectIDFromHex(last.req.id).id
          /\ appointments[k].status = "Scheduled"

UpdatableFields == {"startTime", "endTime", "service", "status"}

\* The body supplies field f with a value the field can take.
SuppliedValid(body, f) ==
    /\ body[f].set
    /\ f \in {"startTime", "endTime"} => ParseRFC3339(body[f].v).ok

SuppliedValue(body, f) ==
    IF f \in {"startTime", "endTime"} THEN ParseRFC3339(body[f].v).t ELSE body[f].v

\* C5: an Update by a dentist or staff member whose body supplies none of the
\* four fields is answered 400 and changes nothing; one that supplies at least
\* one valid field (and names a well-formed id) is answered 200, and then every
\* validly supplied field of the appointment with that id has the supplied value,
\* every other field of it (id, patient identifier and patient name included) and
\* every other appointment are as before.
C5_UpdateFrame ==
    [][(Serving("UpdateAppointment") /\ last'.authenticated /\ IsStaff(last'.claims.Role)
            /\ last'.req.body.json) =>
          LET body == last'.req.body
              h    == ObjectIDFromHex(last'.req.id)
          IN  /\ (\A f \in UpdatableFields : ~body[f].set) =>
                    (last'.status = StatusBadRequest /\ appointments' = appointments)
              /\ (h.ok /\ \E f \in UpdatableFields : SuppliedValid(body, f)) =>
                    /\ last'.status = StatusOK
                    /\ Len(appointments') = Len(appointments)
                    /\ \A k \in 1..Len(appointments) :
                          LET a == appointments[k]
                              b == appointments'[k]
                          IN  IF a.id # h.id
                              THEN b = a
                              ELSE /\ b.id = a.id
                                   /\ b.patientId = a.patientId
                                   /\ b.patientName = a.patientName
                                   /\ \A f \in UpdatableFields :
                                         b[f] = IF SuppliedValid(body, f)
                                                THEN SuppliedValue(body, f)
                                                ELSE a[f]]_vars

\* The first of two appointments has just been given a new service, by a body
\* whose start time is no timestamp; the second still has the service it was booked with.
C5_Witness ==
    /\ last.op = "UpdateAppointment"
    /\ last.status = StatusOK
    /\ last.req.body = UpdateServiceBadStart
    /\ Len(appointments) = 2
    /\ appointments[1].service = "Whitening"
    /\ appointments[1].startTime = ParseRFC3339(BookCleaning.startTime).t
    /\ appointments[2].service = "Cleaning"

\* C6: a Cancel by a dentist or staff member on a well-formed id that matches no
\* appointment is answered 404 and changes nothing; and once a Cancel has
\* reported success, the appointment with that id is still stored with status
\* "Cancelled" after the next step, whatever that step is, and a list served by
\* that step shows it so.
C6_CancelledStays ==
    [][/\ (Serving("CancelAppointment") /\ last'.authenticated /\ IsStaff(last'.claims.Role)
             /\ ObjectIDFromHex(last'.req.id).ok
             /\ FindAppointmentByID(appointments, ObjectIDFromHex(last'.req.id).id) = 0) =>
             (last'.status = StatusNotFound /\ appointments' = appointments)
       /\ (last.op = "CancelAppointment" /\ last.status = StatusOK) =>
             LET id == ObjectIDFromHex(last.req.id).id
             IN  /\ \E k \in 1..Len(appointments') :
                       appointments'[k].id = id /\ appointments'[k].status = "Cancelled"
                 /\ (Serving("GetAppointment") /\ last'.status = StatusOK
                        /\ last'.claims.Role # "client") =>
                       \E k \in 1..Len(last'.body.items) :
                           /\ last'.body.items[k].id = Hex(id)
                           /\ last'.body.items[k].status = "Cancelled"]_vars

\* C7: no step takes a stored appointment out of status "Cancelled"; a step that
\* changes the status of a stored appointment is an Update served to a dentist
\* or staff member, or the UpdateOne of a Cancel requested by one.
C7_StatusOnlyAdvances ==
    [][\A k \in 1..Len(appointments) :
          /\ appointments[k].status = "Cancelled" => appointments'[k].status = "Cancelled"
          /\ appointments'[k].status # appointments[k].status =>
                \/ /\ last'.op = "UpdateAppointment"
                   /\ last'.claims.Role \in {"dentist", "staff"}
                   /\ running' = running
                \/ \E j \in 1..Len(running) :
                       /\ Len(running') = Len(running)
                       /\ running[j].op = "CancelAppointment"
                       /\ running[j].claims.Role \in {"dentist", "staff"}
                       /\ running[j].pc = "UpdateOne"
                       /\ running'[j].pc = "FindOne"]_vars

\* C12: a list just served whose filters matched no appointment is written as an
\* empty sequence, not as null, on both list routes.
C12_EmptyListNotNull ==
    (last.op \in {"GetAppointments", "GetAppointment"}
        /\ last.status = StatusOK /\ Len(last.body.items) = 0) =>
        ~last.body.isNull


(***************************************************************************)
(* SpecDates: bookings around the ends of July and lists by date range.    *)
(***************************************************************************)
BookLateJune == CreateRequest("2024-06-30T23:30:00Z", "2024-07-01T08:00:00Z", "Filling")

July == Query("2024-07-01", "2024-07-31", "", "")
FromJulySecond == Query("2024-07-02", "", "", "")
UntilJulyEnd == Query("", "2024-07-31", "", "")

DatesRegisterRequests == {AnnRegisters, DeeRegisters}

DatesCreateRequests == {BookCleaning, BookCheckup, BookLateJune}

DatesQueries == {July, FromJulySecond, UntilJulyEnd, NoFilter}

NextDates ==
    \/ \E req \in DatesRegisterRequests : RegisterUser(req)
    \/ \E req \in DatesRegisterRequests : Login(LoginOf(req))
    \/ \E hdr \in BearersOf(tokens), req \in DatesCreateRequests : CreateAppointment(hdr, req)
    \/ \E hdr \in BearersOf(tokens), q \in DatesQueries : GetAppointments(hdr, q)
    \/ \E hdr \in BearersOf(tokens), q \in DatesQueries : GetAppointment(hdr, q)
    \/ \E k \in 1..Len(running) : CreateInsertOne(k)
    \/ \E k \in 1..Len(running) : Notify(k)
    \/ \E k \in 1..Len(running) : WriteJSON(k)
    \/ \E outcome \in Delivered : SendSmsWithTextbelt(outcome)
    \/ CorsAbort("GET /api/appointment/user/:id", OtherOrigin, ApiHost, NoHeader)

SpecDates == Init /\ [][NextDates]_vars

(***************************************************************************)
(* Properties of the date range.                                           *)
(***************************************************************************)
SecondsPerDay == 24 * 3600

\* The first second of the day a date names (UTC), as Unix seconds.
DayStart(date) ==
    LET f == DateFields(date) IN DaysFromCivil(f.y, f.mo, f.d) * SecondsPerDay

\* The last second, 23:59:59, of that day.
DayEnd(date) == DayStart(date) + SecondsPerDay - 1

\* The start time lies in the range the query names, each bound applying only
\* when supplied.
InDays(t, q) ==
    /\ q.startDate # "" => t >= DayStart(q.startDate)
    /\ q.endDate # "" => t <= DayEnd(q.endDate)

\* The list this step serves holds stored appointment k.
Shown(k) ==
    \E j \in 1..Len(last'.body.items) : last'.body.items[j].id = Hex(appointments[k].id)

\* This step serves a list by dates alone, each date a calendar date or absent.
ListedByDates ==
    /\ Serving("GetAppointments") \/ Serving("GetAppointment")
    /\ last'.status = StatusOK
    /\ last'.req.status = "" /\ last'.req.patientId = ""
    /\ last'.req.startDate # "" => ParseDate(last'.req.startDate).ok
    /\ last'.req.endDate # "" => ParseDate(last'.req.endDate).ok

\* C11: the step that serves a list by date range leaves the appointments as
\* they are, and the list holds an appointment the caller may see (any, for a
\* dentist or staff member; the caller's own, for a client) exactly when its
\* start time lies between 00:00:00 of startDate and 23:59:59 of endDate, both
\* inclusive, each bound applying only when supplied.
C11_DateRangeInclusive ==
    [][ListedByDates =>
          /\ appointments' = appointments
          /\ \A k \in 1..Len(appointments) :
                (last'.claims.Role # "client"
                    \/ Hex(appointments[k].patientId) = last'.claims.UserID) =>
                    (Shown(k) <=> InDays(appointments[k].startTime, last'.req))]_vars


(***************************************************************************)
(* SpecNotify: bookings, cancellations and the goroutines they launch,     *)
(* with every way a send can end.                                          *)
(***************************************************************************)
NotifyRegisterRequests == {AnnRegisters, DeeRegisters}

NotifyCancelIdParams == {AppointmentObjectIDs[1], UnusedObjectID}

NextNotify ==
    \/ \E req \in NotifyRegisterRequests : RegisterUser(req)
    \/ \E req \in NotifyRegisterRequests : Login(LoginOf(req))
    \/ \E hdr \in BearersOf(tokens) : CreateAppointment(hdr, BookCleaning)
    \/ \E hdr \in BearersOf(tokens), id \in NotifyCancelIdParams : CancelAppointment(hdr, id)
    \/ \E k \in 1..Len(running) : CreateInsertOne(k)
    \/ \E k \in 1..Len(running) : CancelUpdateOne(k)
    \/ \E k \in 1..Len(running) : CancelFindOne(k)
    \/ \E k \in 1..Len(running) : Notify(k)
    \/ \E k \in 1..Len(running) : WriteJSON(k)
    \/ \E outcome \in TextbeltOutcomes : SendSmsWithTextbelt(outcome)
    \/ CorsAbort("POST /api/appointments", OtherOrigin, ApiHost, NoHeader)

SpecNotify == Init /\ [][NextNotify]_vars

(***************************************************************************)
(* Properties of the notification.                                         *)
(***************************************************************************)
\* A step of a sendSmsWithTextbelt goroutine: one fewer is running, or a line
\* was logged.
GoroutineStep == Len(sms') < Len(sms) \/ smsLog' # smsLog

\* sms' is sms with n goroutines appended.
Launched(n) == Len(sms') = Len(sms) + n /\ SubSeq(sms', 1, Len(sms)) = sms

\* C13: the end of a goroutine, however its send ended, leaves the last
\* response, the appointments, the users and the running handlers as they were
\* and leaves exactly one goroutine fewer (none is started again); the response
\* of a Create or a Cancel that ran to its end is what the handler held before
\* it, whatever the goroutines did meanwhile, and writing it waits for none and
\* logs nothing; and goroutines are started by those two handlers only, in a
\* step that answers nothing and stores nothing.
C13_DispatchDetached ==
    [][/\ GoroutineStep =>
             /\ last' = last
             /\ appointments' = appointments
             /\ users' = users
             /\ running' = running
             /\ Len(sms') = Len(sms) - 1
       /\ ((Serving("CreateAppointment") /\ last'.status = StatusCreated)
             \/ (Serving("CancelAppointment") /\ last'.status = StatusOK)) =>
             /\ \E k \in 1..Len(running) :
                   /\ running[k].pc = "JSON"
                   /\ running' = Without(running, k)
                   /\ last'.op = running[k].op
                   /\ last'.body = FinalResponse(running[k]).body
                   /\ last'.launched = running[k].launched
             /\ sms' = sms
             /\ smsLog' = smsLog
             /\ appointments' = appointments
       /\ Len(sms') > Len(sms) =>
             /\ Len(running') = Len(running)
             /\ \E k \in 1..Len(running) :
                   /\ running[k].pc = "go"
                   /\ running'[k].pc = "JSON"
                   /\ running'[k].launched > 0
                   /\ Launched(running'[k].launched)
             /\ last' = last
             /\ smsLog' = smsLog
             /\ appointments' = appointments]_vars

\* The send launched by a successful Cancel has failed: the response is still
\* the 200 it was, the appointment is cancelled, and no goroutine is running.
C13_Witness ==
    /\ last.op = "CancelAppointment"
    /\ last.status = StatusOK
    /\ last.launched = 1
    /\ smsLog \in {LogLine("post failed", "+15550100"), LogLine("refused", "+15550100")}
    /\ sms = <<>>
    /\ appointments # <<>>
    /\ appointments[1].status = "Cancelled"


(***************************************************************************)
(* SpecGate: every protected route, called with no header, with tokens that*)
(* are no JWS, forged, issued by an earlier run of the server, or issued   *)
(* by Login and ageing as time passes.                                     *)
(***************************************************************************)
\* The token of the first user, a client, issued under the key "s3cr3t-k3y" at
\* time 0 of the clock by a run of the server that had that key.
EarlierToken == GenerateJWT(UserObjectIDs[1], "client", "s3cr3t-k3y", 0).token

GateHeaders(issued) ==
    HeadersOf(issued) \cup {Bearer(GarbageToken), Bearer(ForgedToken), Bearer(EarlierToken)}

GateRegisterRequests == {AnnRegisters}

\* A profile update that writes the name the account already has.
KeepName == [json |-> TRUE, fullName |-> AnnRegisters.fullName]

NextGate ==
    \/ \E req \in GateRegisterRequests : RegisterUser(req)
    \/ \E req \in GateRegisterRequests : Login(LoginOf(req))
    \/ \E hdr \in GateHeaders(tokens) : GetCurrentUser(hdr)
    \/ \E hdr \in GateHeaders(tokens) : UpdateCurrentUser(hdr, KeepName)
    \/ \E hdr \in GateHeaders(tokens) : CreateAppointment(hdr, BookCleaning)
    \/ \E hdr \in GateHeaders(tokens) : GetAppointments(hdr, NoFilter)
    \/ \E hdr \in GateHeaders(tokens) : GetAppointment(hdr, NoFilter)
    \/ \E hdr \in GateHeaders(tokens) : UpdateAppointment(hdr, AppointmentObjectIDs[1], UpdateCompleted)
    \/ \E hdr \in GateHeaders(tokens) : CancelAppointment(hdr, AppointmentObjectIDs[1])
    \/ \E hdr \in GateHeaders(tokens) : HandleChat(hdr, AskPrice, "answered")
    \/ \E k \in 1..Len(running) : CreateInsertOne(k)
    \/ \E k \in 1..Len(running) : Notify(k)
    \/ \E k \in 1..Len(running) : WriteJSON(k)
    \/ \E outcome \in Delivered : SendSmsWithTextbelt(outcome)
    \/ Tick
    \/ \E hdr \in GateHeaders(tokens) : CorsAbort("GET /api/user/:id", OtherOrigin, ApiHost, hdr)

SpecGate == Init /\ [][NextGate]_vars


(***************************************************************************)
(* Properties of the gate.                                                 *)
(***************************************************************************)
ProtectedOps ==
    {"GetAppointments", "GetAppointment", "CreateAppointment", "UpdateAppointment",
     "CancelAppointment", "GetCurrentUser", "UpdateCurrentUser", "HandleChat"}

\* The header carries no token the server may accept now: it is missing, its
\* token is no JWS, is signed with another key than the server's, or has reached
\* its expiration; or the server has no key.
MustReject(h) ==
    \/ ~h.present
    \/ h.token.form # "jws"
    \/ h.token.key # jwtSecret
    \/ now * TickHours >= h.token.exp
    \/ jwtSecret = ""

\* A request has just arrived and been answered in the same step.
Answered(op) == Serving(op) /\ running' = running

\* A request has just arrived and its handler has gone on to its next call.
Admitted == Len(running') > Len(running)

\* C14: a request to a protected route whose token is missing, malformed,
\* wrongly signed or expired when it arrives, or that reaches a server without a
\* key, is answered 401 before any database call or goroutine, and leaves the
\* users, the appointments, the goroutines, the running handlers and the tokens
\* as they were; any other request to such a route runs with the identity its
\* token carries; and without a key a Login issues no token.
C14_GatedByValidateSession ==
    [][/\ \A op \in ProtectedOps :
             Answered(op) =>
                 IF MustReject(last'.header)
                 THEN /\ ~last'.authenticated
                      /\ last'.status = StatusUnauthorized
                      /\ last'.dbOps = 0
                      /\ last'.launched = 0
                      /\ UNCHANGED <<users, appointments, sms, tokens>>
                 ELSE /\ last'.authenticated
                      /\ last'.claims = [UserID |-> last'.header.token.UserID,
                                         Role   |-> last'.header.token.Role]
       /\ Admitted =>
             LET h == running'[Len(running')]
             IN  /\ h.op \in ProtectedOps
                 /\ ~MustReject(h.header)
                 /\ h.claims = [UserID |-> h.header.token.UserID,
                                Role   |-> h.header.token.Role]
       /\ \A k \in 1..Len(running) :
             (Len(running') = Len(running) /\ running'[k].pc # running[k].pc) =>
                 /\ running'[k].header = running[k].header
                 /\ running'[k].claims = running[k].claims
       /\ (Serving("Login") /\ jwtSecret = "") =>
             /\ tokens' = tokens
             /\ last'.status # StatusOK
             /\ last'.body.kind = "error"]_vars

\* A token Login issued has expired, and a booking attempted with it has just
\* been refused while an earlier booking is stored.
C14_Witness ==
    /\ last.op = "CreateAppointment"
    /\ last.header.token \in tokens
    /\ now * TickHours >= last.header.token.exp
    /\ last.status = StatusUnauthorized
    /\ Len(appointments) = 1


(***************************************************************************)
(* SpecUpdate: updates whose times are no timestamps, and updates and      *)
(* cancellations of an appointment that is not stored.                     *)
(***************************************************************************)
\* a start time that is a timestamp and an end time in a thirteenth month
UpdateBadEnd ==
    UpdateRequest(Set("2024-07-31T23:00:00Z"), Set("2024-13-01T08:00:00Z"), Unset, Unset)

UpdateRegisterRequests == {AnnRegisters, DeeRegisters}

UpdateBodies ==
    {UpdateServiceBadStart, UpdateBadStartOnly, UpdateBadEnd, UpdateCompleted, UpdateNothing}

UpdateIdParams == {AppointmentObjectIDs[1], UnusedObjectID}

\* The updates sent: for the first appointment the bodies with an unparsed time
\* and the one with no field, and for the identifier that is not stored a body
\* with a valid field.
UpdateCalls ==
    {<<AppointmentObjectIDs[1], req>> : req \in UpdateBodies \ {UpdateCompleted}}
        \cup {<<UnusedObjectID, UpdateCompleted>>}

NextUpdate ==
    \/ \E req \in UpdateRegisterRequests : RegisterUser(req)
    \/ \E req \in UpdateRegisterRequests : Login(LoginOf(req))
    \/ \E hdr \in BearersOf(tokens) : CreateAppointment(hdr, BookCleaning)
    \/ \E hdr \in BearersOf(tokens), call \in UpdateCalls :
          UpdateAppointment(hdr, call[1], call[2])
    \/ \E hdr \in BearersOf(tokens) : CancelAppointment(hdr, UnusedObjectID)
    \/ \E k \in 1..Len(running) : CreateInsertOne(k)
    \/ \E k \in 1..Len(running) : Notify(k)
    \/ \E k \in 1..Len(running) : WriteJSON(k)
    \/ \E outcome \in Delivered : SendSmsWithTextbelt(outcome)
    \/ CorsAbort("PUT /api/appointments/:id", OtherOrigin, ApiHost, NoHeader)

SpecUpdate == Init /\ [][NextUpdate]_vars

(***************************************************************************)
(* Properties of updates.                                                  *)
(***************************************************************************)
TimeFields == {"startTime", "endTime"}

\* The body supplies time field f with a text that is no RFC3339 timestamp.
Unparsed(body, f) == body[f].set /\ ~ParseRFC3339(body[f].v).ok

\* The body without the time fields whose text is no timestamp.
WithoutUnparsed(body) ==
    [f \in DOMAIN body |->
        IF f \in TimeFields /\ Unparsed(body, f) THEN Unset ELSE body[f]]

\* C15: an Update by a dentist or staff member whose startTime or endTime is no
\* RFC3339 timestamp is answered, and acts on the appointments, exactly as the
\* same request without that field: with another valid field it is answered 200
\* and that field is set; and in every case each appointment keeps the stored
\* value of the dropped field.
C15_UnparsedTimeDropped ==
    [][(Serving("UpdateAppointment") /\ last'.authenticated /\ IsStaff(last'.claims.Role)
            /\ last'.req.body.json
            /\ \E f \in TimeFields : Unparsed(last'.req.body, f)) =>
          LET body == last'.req.body
              h    == ObjectIDFromHex(last'.req.id)
              r    == UpdateAppointmentResult(appointments, last'.claims, last'.req.id,
                                              WithoutUnparsed(body))
          IN  /\ last'.status = r.resp.status
              /\ last'.body = r.resp.body
              /\ appointments' = r.appointments
              /\ (h.ok /\ \E g \in UpdatableFields : SuppliedValid(body, g)) =>
                    /\ last'.status = StatusOK
                    /\ \A k \in 1..Len(appointments) :
                          appointments[k].id = h.id =>
                              \A g \in UpdatableFields :
                                  SuppliedValid(body, g) =>
                                      appointments'[k][g] = SuppliedValue(body, g)
              /\ Len(appointments') = Len(appointments)
              /\ \A k \in 1..Len(appointments), f \in TimeFields :
                    Unparsed(body, f) => appointments'[k][f] = appointments[k][f]]_vars

\* The first appointment has just been given a new start time by a body whose
\* end time is in a thirteenth month: it still ends when it was booked to end.
C15_Witness ==
    /\ last.op = "UpdateAppointment"
    /\ last.status = StatusOK
    /\ last.req.body = UpdateBadEnd
    /\ appointments # <<>>
    /\ appointments[1].startTime = ParseRFC3339("2024-07-31T23:00:00Z").t
    /\ appointments[1].endTime = ParseRFC3339(BookCleaning.endTime).t


\* The request just served came from a dentist or staff member and names, with
\* a well-formed identifier, an appointment that is not stored.
StaffNamesUnstored ==
    LET h == ObjectIDFromHex(last'.req.id)
    IN  /\ last'.authenticated
        /\ IsStaff(last'.claims.Role)
        /\ h.ok
        /\ FindAppointmentByID(appointments, h.id) = 0

\* C17: an Update by a dentist or staff member that names, with a well-formed
\* identifier, an appointment that is not stored, and carries at least one valid
\* field, is answered 200 "updated successfully", stores no appointment and
\* changes none; a Cancel that names the same identifier is answered 404, and
\* changes nothing either.
C17_UpdateOfUnstoredSucceeds ==
    [][/\ (Serving("UpdateAppointment") /\ StaffNamesUnstored /\ last'.req.body.json
              /\ \E g \in UpdatableFields : SuppliedValid(last'.req.body, g)) =>
             /\ last'.status = StatusOK
             /\ last'.body = MessageBody("Appointment updated successfully")
             /\ appointments' = appointments
       /\ (Serving("CancelAppointment") /\ StaffNamesUnstored) =>
             /\ last'.status = StatusNotFound
             /\ last'.launched = 0
             /\ appointments' = appointments]_vars

\* An update marking an appointment that is not stored as completed has just
\* been answered 200, while the one stored appointment is still scheduled.
C17_Witness ==
    /\ last.op = "UpdateAppointment"
    /\ last.status = StatusOK
    /\ last.req.id = UnusedObjectID
    /\ last.req.body = UpdateCompleted
    /\ Len(appointments) = 1
    /\ appointments[1].status = "Scheduled"


(***************************************************************************)
(* SpecRoles: registrations with no role, a role of the clinic and a role  *)
(* the clinic does not have, and changes of profile.                       *)
(***************************************************************************)
RolesRegisterRequests == {AnnRegisters, DeeRegisters, SamRegisters, EveRegisters}

NextRoles ==
    \/ \E req \in RolesRegisterRequests : RegisterUser(req)
    \/ \E req \in RolesRegisterRequests : Login(LoginOf(req))
    \/ \E hdr \in BearersOf(tokens) : UpdateCurrentUser(hdr, RenameToAnna)
    \/ \E hdr \in BearersOf(tokens) : GetCurrentUser(hdr)
    \/ CorsAbort("POST /auth/register", OtherOrigin, ApiHost, NoHeader)

SpecRoles == Init /\ [][NextRoles]_vars

UserRoles == {"client", "dentist", "staff"}

\* C16: every stored user has the role client, dentist or staff, and a
\* registration just accepted that supplied no role stored the role client.
C16_RolesOfTheClinic ==
    /\ \A i \in 1..Len(users) : users[i].role \in UserRoles
    /\ (last.op = "RegisterUser" /\ last.status = StatusCreated /\ last.req.role = "") =>
          users[Len(users)].role = "client"


(***************************************************************************)
(* Spec: every route of cmd/api/main.go, with every request above.         *)
(***************************************************************************)
RegisterRequests ==
    AuthRegisterRequests \cup BookingRegisterRequests \cup ListRegisterRequests

LoginRequests == AuthLoginRequests \cup {LoginOf(req) : req \in RegisterRequests}

CreateRequests == BookingCreateRequests \cup {BookCheckup}

UpdateRequests == StaffUpdateRequests \cup UpdateBodies \cup {UpdateTimes}

ChatRequests == {AskPrice, AskNothing, NoRequest}

IdParams ==
    StaffUpdateIdParams \cup UpdateIdParams \cup NotifyCancelIdParams \cup StaffCancelIdParams \cup {AppointmentObjectIDs[2]}

Next ==
    \/ \E req \in RegisterRequests : RegisterUser(req)
    \/ \E req \in LoginRequests : Login(req)
    \/ \E hdr \in HeadersOf(tokens) : GetCurrentUser(hdr)
    \/ \E hdr \in HeadersOf(tokens) : UpdateCurrentUser(hdr, RenameToAnna)
    \/ \E hdr \in HeadersOf(tokens), req \in CreateRequests : CreateAppointment(hdr, req)
    \/ \E hdr \in HeadersOf(tokens), q \in ListQueries : GetAppointments(hdr, q)
    \/ \E hdr \in HeadersOf(tokens), q \in ListQueries : GetAppointment(hdr, q)
    \/ \E hdr \in HeadersOf(tokens), id \in IdParams, req \in UpdateRequests :
          UpdateAppointment(hdr, id, req)
    \/ \E hdr \in HeadersOf(tokens), id \in IdParams : CancelAppointment(hdr, id)
    \/ \E hdr \in HeadersOf(tokens), req \in ChatRequests, outcome \in GeminiOutcomes :
          HandleChat(hdr, req, outcome)
    \/ \E k \in 1..Len(running) : CreateInsertOne(k)
    \/ \E k \in 1..Len(running) : CancelUpdateOne(k)
    \/ \E k \in 1..Len(running) : CancelFindOne(k)
    \/ \E k \in 1..Len(running) : Notify(k)
    \/ \E k \in 1..Len(running) : WriteJSON(k)
    \/ \E outcome \in TextbeltOutcomes : SendSmsWithTextbelt(outcome)
    \/ Tick
    \/ \E route \in Routes, origin \in Origins, hdr \in HeadersOf(tokens) :
          CorsAbort(route, origin, ApiHost, hdr)

Spec == Init /\ [][Next]_vars

====
